---- MODULE Spec2Model ----
(***************************************************************************)
(* Rank tracker of benfootie/rank-check: the update cycle (updateRankings) *)
(* of the five server variants, the files they persist, the in-memory      *)
(* cache read by GET /metadata/:tokenId and the timer that starts cycles.  *)
(*                                                                         *)
(*   "index"     src/index.js            guarded loop, cache, colours      *)
(*   "cached"    src/unnamed/part_003    cache, colours                    *)
(*   "redGreen"  src/working_redGreen.js colours                           *)
(*   "lastCycle" src/unnamed/part_000    rankings only                     *)
(*   "rolling"   src/24hr_check.js       rolling 25 h history              *)
(***************************************************************************)
EXTENDS Integers, Sequences, FiniteSets, TLC

VARIABLES
    variant,              \* which server file is running
    clock,                \* Date.now() / 1000, in seconds
    pc,                   \* per invocation of updateRankings: where it is
    collections,          \* per invocation: const collections
    previousRankings,     \* per invocation: the reference loaded for it
    previousColors,       \* per invocation: let previousColors
    newPreviousRankings,  \* per invocation: const newPreviousRankings
    newPreviousColors,    \* per invocation: const newPreviousColors
    idx,                  \* per invocation: loop variable i (0-based)
    history,              \* per invocation (rolling): let history
    now,                  \* per invocation (rolling): const now
    latestCollections,    \* module-level cache
    rankingsFile,         \* previous_rankings.json
    colorsFile,           \* previous_colors.json
    historyFile,          \* rankings_history.json
    images,               \* images/token{r}.png
    response,             \* last answer of GET /metadata/:tokenId
    cacheBy,              \* observer: invocation that assigned the cache
    rankingsBy,           \* observer: invocation that wrote the state file
    moves,                \* observer: per invocation, rank -> movement computed
    wrote,                \* observer: per invocation, what it has written
    trail,                \* observer: persisted movement/colour of id "a"
    qRank,                \* argument of a getRankMovement call
    qResult,              \* its result
    qHistory,             \* arguments of a getPreviousRankings call
    qTargetTime,
    qFound,               \* its result
    qNow,                 \* const now of the cycle that prunes qHistory
    qKept,                \* the history that cycle writes back
    qAttempts,            \* what the attempts of a fetchWithRetry call meet
    qRetry,               \* its result, and the waits it made
    qAnswers,             \* what the page requests of a fetchTopCollections call meet
    qFetched,             \* its result
    upstream              \* observer: what the latest page requests met

cycleVars == <<pc, collections, previousRankings, previousColors,
               newPreviousRankings, newPreviousColors, idx, history, now>>
diskVars  == <<rankingsFile, colorsFile, historyFile, images>>
obsVars   == <<cacheBy, rankingsBy, moves, wrote>>
movementVars == <<qRank, qResult>>
lookupVars == <<qHistory, qTargetTime, qFound, qNow, qKept>>
retryVars == <<qAttempts, qRetry>>
pagingVars == <<qAnswers, qFetched>>
queryVars == <<movementVars, lookupVars, retryVars, pagingVars, upstream>>
vars == <<variant, clock, cycleVars, latestCollections, diskVars, response,
          obsVars, trail, queryVars>>

----------------------------------------------------------------------------
(* Bounds *)

\* stands for target = 100, the length of a full list
Target == 3
\* snapshots in the history handed to a getPreviousRankings call
MaxLookup == 3
\* stands for limit = 20, the records of one page
PageLimit == 2
\* invocations of updateRankings that may be in flight at once
MaxOverlap == 2
\* hours of wall-clock time followed
MaxHours == 26
\* snapshots in rankings_history.json when a further cycle may still start
MaxSnaps == 2

----------------------------------------------------------------------------
(* Program constants *)

Sentinel == 101
Tolerance == 3600
RetainHours == 25
LookbackHours == 24

Hour == 3600

\* fetchWithRetry(url, options, retries = 3, delay = 1000)
Retries == 3
Delay == 1000

Variants == {"index", "cached", "redGreen", "lastCycle", "rolling"}

Guarded(v)   == v = "index"
HasCache(v)  == v \in {"index", "cached"}
HasColors(v) == v \in {"index", "cached", "redGreen"}
Rolling(v)   == v = "rolling"

IdPool == <<"a", "b", "c", "d", "e">>
\* one id more than a full list holds
Ids == {IdPool[k] : k \in 1..(Target + 1)}
\* a record without an id field
NoId == "noid"
\* an element of the list that is undefined or null
NoRec == "norec"
Recs == Ids \cup {NoId, NoRec}
\* the key JavaScript uses for obj[undefined]
Keys == Ids \cup {"undefined"}

Slots == 1..MaxOverlap
Ranks == 1..Target

Min(S) == CHOOSE x \in S : \A y \in S : x <= y

Abs(x) == IF x < 0 THEN -x ELSE x

----------------------------------------------------------------------------
(* Objects used as id-keyed maps, and the JSON files that hold them *)

EmptyMap == [k \in {} |-> 0]

Put(m, k, v) == [x \in (DOMAIN m) \cup {k} |-> IF x = k THEN v ELSE m[x]]

NoFile == [present |-> FALSE, map |-> EmptyMap]

FileOf(m) == [present |-> TRUE, map |-> m]

\* a file whose text JSON.parse rejects, such as a write cut short: map is
\* what the text was meant to hold
GarbledFile(m) == [present |-> TRUE, map |-> m, garbled |-> TRUE]

IsGarbled(file) == "garbled" \in DOMAIN file

LoadMapTrusting(file) == IF file.present THEN file.map ELSE EmptyMap

\* try { JSON.parse(fs.readFileSync(FILE)) } catch (e) { } with the default {}
LoadMap(file) == IF file.present /\ ~IsGarbled(file) THEN file.map ELSE EmptyMap

NoHistory == [present |-> FALSE, snaps |-> <<>>]

GarbledHistory(h) == [present |-> TRUE, snaps |-> h, garbled |-> TRUE]

\* the same for rankings_history.json, with the default []
LoadHistory(file) == IF file.present /\ ~IsGarbled(file) THEN file.snaps ELSE <<>>

\* collection.id used as a property key
KeyOf(rec) == IF rec = NoId THEN "undefined" ELSE rec

RECURSIVE RankMapUpToFirst(_, _)
RankMapUpToFirst(coll, n) ==
    IF n = 0 THEN EmptyMap
    ELSE LET before == RankMapUpToFirst(coll, n - 1)
         IN IF KeyOf(coll[n]) \in DOMAIN before THEN before
            ELSE Put(before, KeyOf(coll[n]), n)

\* collections.forEach((collection, index) => { map[collection.id] = index + 1 })
RECURSIVE RankMapUpTo(_, _)
RankMapUpTo(coll, n) ==
    IF n = 0 THEN EmptyMap
    ELSE Put(RankMapUpTo(coll, n - 1), KeyOf(coll[n]), n)

RankMapOf(coll) == RankMapUpTo(coll, Len(coll))

----------------------------------------------------------------------------
(* Movement and colour *)

PreviousRankOfFirst(map, key) ==
    IF key \in DOMAIN map /\ map[key] # 0 THEN map[key] ELSE 1

\* previousRankings[collection.id] || 101
PreviousRankOf(map, key) ==
    IF key \in DOMAIN map /\ map[key] # 0 THEN map[key] ELSE Sentinel

ClassifySwapped(currentRank, previousRank) ==
    IF currentRank < previousRank THEN "down"
    ELSE IF currentRank > previousRank THEN "up"
    ELSE "same"

\* if (currentRank < previousRank) 'up' else if (currentRank > previousRank) 'down' else 'same'
Classify(currentRank, previousRank) ==
    IF currentRank < previousRank THEN "up"
    ELSE IF currentRank > previousRank THEN "down"
    ELSE "same"

MovementOfSentinel(currentRank, ref, key) ==
    Classify(currentRank, PreviousRankOf(ref.map, key))

\* The movement of one loop iteration. ref is the reference the invocation
\* loaded: [present, map]; only the rolling variant can have none.
MovementOf(currentRank, ref, key) ==
    IF ref.present
    THEN Classify(currentRank, PreviousRankOf(ref.map, key))
    ELSE "same"

ResolveColorForgetful(movement, colors, key) ==
    IF movement = "up" THEN "green" ELSE "red"

\* movement === 'up' ? 'green' : movement === 'down' ? 'red' : (previousColors[id] || 'red')
ResolveColor(movement, colors, key) ==
    IF movement = "up" THEN "green"
    ELSE IF movement = "down" THEN "red"
    ELSE IF key \in DOMAIN colors THEN colors[key] ELSE "red"

\* movement === 'up' ? 'green' : movement === 'down' ? 'red' : 'orange'
SpikyType(movement) ==
    IF movement = "up" THEN "green"
    ELSE IF movement = "down" THEN "red"
    ELSE "orange"

ColorOf(v, movement, colors, key) ==
    IF HasColors(v) THEN ResolveColor(movement, colors, key)
    ELSE SpikyType(movement)

----------------------------------------------------------------------------
(* Rolling history *)

RECURSIVE ClosestFromLast(_, _, _, _)
ClosestFromLast(hist, targetTime, k, best) ==
    IF k > Len(hist) THEN best
    ELSE LET diff == Abs(hist[k].timestamp - targetTime)
         IN IF diff <= best.minDiff
            THEN ClosestFromLast(hist, targetTime, k + 1,
                                 [minDiff |-> diff, closestSnapshot |-> hist[k]])
            ELSE ClosestFromLast(hist, targetTime, k + 1, best)

\* the for-of scan of getPreviousRankings from position k on
RECURSIVE ClosestFrom(_, _, _, _)
ClosestFrom(hist, targetTime, k, best) ==
    IF k > Len(hist) THEN best
    ELSE LET diff == Abs(hist[k].timestamp - targetTime)
         IN IF diff < best.minDiff
            THEN ClosestFrom(hist, targetTime, k + 1,
                             [minDiff |-> diff, closestSnapshot |-> hist[k]])
            ELSE ClosestFrom(hist, targetTime, k + 1, best)

\* null is [present |-> FALSE]
getPreviousRankings(hist, targetTime) ==
    IF Len(hist) = 0 THEN NoFile
    ELSE LET best == ClosestFrom(hist, targetTime, 1,
                       [minDiff |-> Abs(hist[1].timestamp - targetTime),
                        closestSnapshot |-> hist[1]])
         IN IF best.minDiff <= Tolerance
            THEN FileOf(best.closestSnapshot.rankings)
            ELSE NoFile

PruneStrict(hist, cutoff) == SelectSeq(hist, LAMBDA s : s.timestamp > cutoff)

\* history.filter(snapshot => snapshot.timestamp >= cutoff)
Prune(hist, cutoff) == SelectSeq(hist, LAMBDA s : s.timestamp >= cutoff)

PruneAtLookback(hist, nw) == Prune(hist, nw - LookbackHours * Hour)

\* const cutoff = now - 25 * 3600; history = history.filter(...)
PruneAt(hist, nw) == Prune(hist, nw - RetainHours * Hour)

\* push the new snapshot, prune, and the array that is written
NextHistory(hist, nw, coll) ==
    PruneAt(Append(hist, [timestamp |-> nw, rankings |-> RankMapOf(coll)]), nw)

\* the reference an invocation compares against
ReferenceOf(v, file, hist, nw) ==
    IF Rolling(v) THEN getPreviousRankings(hist, nw - LookbackHours * Hour)
    ELSE FileOf(LoadMap(file))

----------------------------------------------------------------------------
(* What the upstream can answer *)

\* Four orders of the market, each a full list: a, b, c, ...; the same with
\* its first two records exchanged; a newcomer ahead of a, b, ...; and the
\* first one reversed.
FullList == [k \in 1..Target |-> IdPool[k]]
SwappedList == [k \in 1..Target |-> IF k = 1 THEN IdPool[2]
                                    ELSE IF k = 2 THEN IdPool[1] ELSE IdPool[k]]
NewcomerList == [k \in 1..Target |-> IF k = 1 THEN IdPool[Target + 1] ELSE IdPool[k - 1]]
ReversedList == [k \in 1..Target |-> IdPool[Target + 1 - k]]

\* what a fetch can give: a full list or a shorter result set, down to none;
\* fetchTopCollections slices to the target
CleanLists == {SubSeq(order, 1, n) :
                  order \in {FullList, SwappedList, NewcomerList, ReversedList}, n \in 0..Target}

FewLists == {<<>>, <<"a">>, FullList, SwappedList}

----------------------------------------------------------------------------
(* The state after the module has loaded: the first updateRankings() call   *)
(* (last statement but two of each file) has run up to its first await.     *)

InFlight == {"fetching", "rendering"}
\* "rejected": the awaited fetch rejected; "threw": the loop threw
Ended == {"done", "aborted", "threw", "rejected"}

NothingWritten == [cache |-> FALSE, state |-> FALSE, images |-> {}, failed |-> FALSE]
NoResponse == [status |-> 0, tokenId |-> 0, id |-> "none"]

\* previous_rankings.json as a run of the rankings-only server leaves it,
\* whole or cut short
PriorRankings == {NoFile, FileOf(RankMapOf(<<"a", "b">>)),
                  GarbledFile(RankMapOf(<<"a", "b">>))}

\* rankings_history.json as an earlier run of the server leaves it: cycles
\* 13 hours and 1 hour before this start (time counts from the start)
EarlierRun == <<[timestamp |-> 0 - 13 * Hour, rankings |-> RankMapOf(FullList)],
                [timestamp |-> 0 - Hour, rankings |-> RankMapOf(SwappedList)]>>

PriorHistories == {NoHistory, [present |-> TRUE, snaps |-> EarlierRun],
                   GarbledHistory(EarlierRun)}

\* no call of getPreviousRankings or fetchWithRetry on its own has been made
NotFound == [called |-> FALSE, value |-> NoFile]

NotKept == [called |-> FALSE, value |-> <<>>]

NoLookup ==
    /\ qHistory = <<>>
    /\ qTargetTime = 0
    /\ qFound = NotFound
    /\ qNow = 0
    /\ qKept = NotKept

NotTried == [called |-> FALSE, value |-> "none", attempts |-> 0, waits |-> <<>>]

NoRetry ==
    /\ qAttempts = <<>>
    /\ qRetry = NotTried

NotFetched == [called |-> FALSE, rejected |-> FALSE, list |-> <<>>, requests |-> 0,
               running |-> FALSE]

NoPaging ==
    /\ qAnswers = <<>>
    /\ qFetched = NotFetched

NoUpstream == [market |-> <<>>, pages |-> <<>>, requests |-> 0]

InitCycles ==
    /\ pc = [c \in Slots |-> IF c = 1 THEN "fetching" ELSE "idle"]
    /\ collections = [c \in Slots |-> <<>>]
    /\ previousRankings = [c \in Slots |-> NoFile]
    /\ previousColors = [c \in Slots |-> EmptyMap]
    /\ newPreviousRankings = [c \in Slots |-> EmptyMap]
    /\ newPreviousColors = [c \in Slots |-> EmptyMap]
    /\ idx = [c \in Slots |-> 0]
    /\ history = [c \in Slots |-> <<>>]
    /\ now = [c \in Slots |-> 0]
    /\ moves = [c \in Slots |-> EmptyMap]
    /\ wrote = [c \in Slots |-> NothingWritten]

InitRest ==
    /\ clock = 0
    /\ latestCollections = <<>>
    /\ colorsFile = NoFile
    /\ images = [r \in Ranks |-> 0]
    /\ response = NoResponse
    /\ cacheBy = 0
    /\ rankingsBy = 0
    /\ trail = <<>>

Init ==
    /\ variant \in Variants
    /\ rankingsFile = NoFile
    /\ historyFile = NoHistory
    /\ InitCycles
    /\ InitRest
    /\ qRank = 0
    /\ qResult = "none"
    /\ NoLookup
    /\ NoRetry
    /\ NoPaging
    /\ upstream = NoUpstream

\* the same, or started in a directory where the rankings-only server ran
InitSerial ==
    /\ variant \in Variants
    /\ rankingsFile \in (IF HasColors(variant) THEN PriorRankings ELSE {NoFile})
    /\ historyFile \in (IF Rolling(variant) THEN PriorHistories ELSE {NoHistory})
    /\ InitCycles
    /\ InitRest
    /\ qRank = 0
    /\ qResult = "none"
    /\ NoLookup
    /\ NoRetry
    /\ NoPaging
    /\ upstream = NoUpstream

----------------------------------------------------------------------------
(* updateRankings *)

NextStopNoSkip(v, coll, i) ==
    IF i >= Min({Len(coll), Target}) THEN [kind |-> "end", i |-> i]
    ELSE [kind |-> "await", i |-> i]

\* Where the loop started at index i (0-based) stops next: at the await of
\* generateImage for an index, behind the loop, or at the TypeError of
\* reading a property of collections[i] === undefined.
NextStop(v, coll, i) ==
    IF Guarded(v)
    THEN LET numCollections == Min({Len(coll), Target})
             valid == {j \in i..(numCollections - 1) : coll[j + 1] \notin {NoId, NoRec}}
         IN IF valid = {} THEN [kind |-> "end", i |-> numCollections]
            ELSE [kind |-> "await", i |-> Min(valid)]
    ELSE IF i >= Target THEN [kind |-> "end", i |-> i]
    ELSE IF i >= Len(coll) \/ coll[i + 1] = NoRec THEN [kind |-> "throw", i |-> i]
    ELSE [kind |-> "await", i |-> i]

Merge(old, new) ==
    [k \in (DOMAIN old) \cup (DOMAIN new) |-> IF k \in DOMAIN new THEN new[k] ELSE old[k]]

SaveStateCarryOver(c, coll, hist, nw, nR, nC) ==
    /\ rankingsFile' = IF Rolling(variant) THEN rankingsFile
                       ELSE IF HasColors(variant)
                       THEN FileOf(Merge(LoadMap(rankingsFile), nR))
                       ELSE FileOf(Merge(LoadMap(rankingsFile), RankMapOf(coll)))
    /\ colorsFile' = IF HasColors(variant) THEN FileOf(nC) ELSE colorsFile
    /\ historyFile' = IF Rolling(variant)
                      THEN [present |-> TRUE, snaps |-> NextHistory(hist, nw, coll)]
                      ELSE historyFile
    /\ rankingsBy' = c

SaveStateRankingsOnly(c, coll, hist, nw, nR, nC) ==
    /\ rankingsFile' = IF Rolling(variant) THEN rankingsFile
                       ELSE IF HasColors(variant) THEN FileOf(nR)
                       ELSE FileOf(RankMapOf(coll))
    /\ colorsFile' = colorsFile
    /\ historyFile' = IF Rolling(variant)
                      THEN [present |-> TRUE, snaps |-> NextHistory(hist, nw, coll)]
                      ELSE historyFile
    /\ rankingsBy' = c

\* the fs.writeFileSync calls behind the loop
SaveState(c, coll, hist, nw, nR, nC) ==
    /\ rankingsFile' = IF Rolling(variant) THEN rankingsFile
                       ELSE IF HasColors(variant) THEN FileOf(nR)
                       ELSE FileOf(RankMapOf(coll))
    /\ colorsFile' = IF HasColors(variant) THEN FileOf(nC) ELSE colorsFile
    /\ historyFile' = IF Rolling(variant)
                      THEN [present |-> TRUE, snaps |-> NextHistory(hist, nw, coll)]
                      ELSE historyFile
    /\ rankingsBy' = c

\* the local variables of invocation c
SetLocals(c, ref, colors, hist, nw, i, nR, nC) ==
    /\ previousRankings' = [previousRankings EXCEPT ![c] = ref]
    /\ previousColors' = [previousColors EXCEPT ![c] = colors]
    /\ history' = [history EXCEPT ![c] = hist]
    /\ now' = [now EXCEPT ![c] = nw]
    /\ idx' = [idx EXCEPT ![c] = i]
    /\ newPreviousRankings' = [newPreviousRankings EXCEPT ![c] = nR]
    /\ newPreviousColors' = [newPreviousColors EXCEPT ![c] = nC]

\* they are gone when the invocation has returned or thrown
DropLocals(c) == SetLocals(c, NoFile, EmptyMap, <<>>, 0, 0, EmptyMap, EmptyMap)

\* Run the loop of invocation c on from index i until it suspends or ends.
\* w is what the statements before have written in this step. The movement
\* of an iteration is computed before generateImage is awaited.
Proceed(c, coll, ref, colors, hist, nw, i, nR, nC, w) ==
    LET stop == NextStop(variant, coll, i)
    IN /\ pc' = [pc EXCEPT ![c] = CASE stop.kind = "await" -> "rendering"
                                    [] stop.kind = "end" -> "done"
                                    [] OTHER -> "threw"]
       /\ IF stop.kind = "await"
          THEN /\ SetLocals(c, ref, colors, hist, nw, stop.i, nR, nC)
               /\ moves' = [moves EXCEPT ![c] =
                      Put(@, stop.i + 1,
                          MovementOf(stop.i + 1, ref, KeyOf(coll[stop.i + 1])))]
          ELSE /\ DropLocals(c)
               /\ moves' = moves
       /\ IF stop.kind = "end"
          THEN SaveState(c, coll, hist, nw, nR, nC)
          ELSE UNCHANGED <<rankingsFile, colorsFile, historyFile, rankingsBy>>
       /\ wrote' = [wrote EXCEPT ![c] =
              [cache |-> @.cache \/ w.cache,
               state |-> @.state \/ stop.kind = "end",
               images |-> @.images \cup w.images,
               failed |-> @.failed \/ w.failed]]

\* A call of updateRankings in slot c runs to its first await, inside
\* fetchTopCollections. What the slot's earlier invocation wrote becomes an
\* earlier cycle's.
StartCycle(c) ==
    /\ pc' = [pc EXCEPT ![c] = "fetching"]
    /\ collections' = [collections EXCEPT ![c] = <<>>]
    /\ DropLocals(c)
    /\ moves' = [moves EXCEPT ![c] = EmptyMap]
    /\ wrote' = [wrote EXCEPT ![c] = NothingWritten]
    /\ cacheBy' = IF cacheBy = c THEN 0 ELSE cacheBy
    /\ rankingsBy' = IF rankingsBy = c THEN 0 ELSE rankingsBy
    /\ images' = [r \in Ranks |-> IF images[r] = c THEN 0 ELSE images[r]]
    /\ UNCHANGED <<variant, clock, latestCollections, rankingsFile, colorsFile,
                   historyFile, response, queryVars>>

\* the model follows the history file up to MaxSnaps snapshots
MayStart ==
    Rolling(variant) => Len(LoadHistory(historyFile)) < MaxSnaps

\* setInterval(updateRankings, 5 * 60 * 1000) fires: nothing guards the call
Tick(c) ==
    /\ MayStart
    /\ pc[c] \notin InFlight
    /\ \A d \in Slots : d < c => pc[d] \in InFlight
    /\ StartCycle(c)

\* the timer fires in a run where every cycle has ended before the next tick
TickAfterEnd ==
    /\ MayStart
    /\ \A d \in Slots : pc[d] \notin InFlight
    /\ StartCycle(1)

\* if (!collections || collections.length === 0) { ...; return; }
\* index.js also assigns latestCollections = []
AbortCycle(c) ==
    /\ pc' = [pc EXCEPT ![c] = "aborted"]
    /\ latestCollections' = IF Guarded(variant) THEN <<>> ELSE latestCollections
    /\ cacheBy' = IF Guarded(variant) THEN c ELSE cacheBy
    /\ wrote' = [wrote EXCEPT ![c].cache = Guarded(variant) /\ latestCollections # <<>>]
    /\ UNCHANGED <<previousRankings, previousColors, newPreviousRankings,
                   newPreviousColors, idx, history, now, diskVars,
                   rankingsBy, moves>>

\* latestCollections = collections, the loads, and the loop up to its first await
ProcessList(c, list) ==
    LET hist == IF Rolling(variant) THEN LoadHistory(historyFile) ELSE <<>>
        nw == IF Rolling(variant) THEN clock ELSE 0
    IN /\ latestCollections' = IF HasCache(variant) THEN list ELSE latestCollections
       /\ cacheBy' = IF HasCache(variant) THEN c ELSE cacheBy
       /\ Proceed(c, list,
                  ReferenceOf(variant, rankingsFile, hist, nw),
                  IF HasColors(variant) THEN LoadMap(colorsFile) ELSE EmptyMap,
                  hist, nw, 0, EmptyMap, EmptyMap,
                  [cache |-> HasCache(variant), images |-> {}, failed |-> FALSE])
       /\ UNCHANGED images

FetchReturnsNoEarlyReturn(c, list) ==
    /\ pc[c] = "fetching"
    /\ collections' = [collections EXCEPT ![c] = list]
    /\ ProcessList(c, list)
    /\ UNCHANGED <<variant, clock, response, queryVars>>

\* fetchTopCollections resolves with list; updateRankings runs on to its
\* next await or to its end.
FetchResolves(c, list) ==
    /\ pc[c] = "fetching"
    /\ collections' = [collections EXCEPT ![c] = list]
    /\ IF Len(list) = 0 THEN AbortCycle(c) ELSE ProcessList(c, list)
    /\ UNCHANGED <<variant, clock, response>>

FetchReturns(c, list) ==
    /\ FetchResolves(c, list)
    /\ UNCHANGED queryVars

\* await fetchTopCollections() rejects: fetch() itself rejected (files other
\* than index.js) or response.json() did; updateRankings rejects with it.
FetchFails(c) ==
    /\ pc[c] = "fetching"
    /\ pc' = [pc EXCEPT ![c] = "rejected"]
    /\ UNCHANGED <<variant, clock, collections, previousRankings, previousColors,
                   newPreviousRankings, newPreviousColors, idx, history, now,
                   latestCollections, diskVars, response, obsVars>>

FetchRejects(c) ==
    /\ FetchFails(c)
    /\ UNCHANGED queryVars

\* what awaiting generateImage can give: a buffer, null (only index.js
\* catches a failed loadImage), or a rejection
RenderOutcomes(v) ==
    IF Guarded(v) THEN {"buffer", "null", "throw"} ELSE {"buffer", "throw"}

\* generateImage settles for the iteration invocation c is suspended in;
\* updateRankings runs on to its next await or to its end.
RenderReturns(c, outcome) ==
    /\ pc[c] = "rendering"
    /\ outcome \in RenderOutcomes(variant)
    /\ LET i == idx[c]
           currentRank == i + 1
           key == KeyOf(collections[c][i + 1])
           movement == MovementOf(currentRank, previousRankings[c], key)
           color == ColorOf(variant, movement, previousColors[c], key)
       IN IF outcome = "throw"
          THEN /\ pc' = [pc EXCEPT ![c] = "threw"]
               /\ DropLocals(c)
               /\ wrote' = [wrote EXCEPT ![c].failed = TRUE]
               /\ UNCHANGED <<diskVars, rankingsBy, moves>>
          ELSE /\ images' = IF outcome = "buffer"
                            THEN [images EXCEPT ![currentRank] = c]
                            ELSE images
               /\ Proceed(c, collections[c], previousRankings[c], previousColors[c],
                          history[c], now[c], i + 1,
                          IF HasColors(variant)
                          THEN Put(newPreviousRankings[c], key, currentRank)
                          ELSE newPreviousRankings[c],
                          IF HasColors(variant)
                          THEN Put(newPreviousColors[c], key, color)
                          ELSE newPreviousColors[c],
                          [cache |-> FALSE,
                           images |-> IF outcome = "buffer" THEN {currentRank} ELSE {},
                           failed |-> outcome # "buffer"])
    /\ UNCHANGED <<variant, clock, collections, latestCollections, cacheBy,
                   response, queryVars>>

\* wall-clock time passes between two events
TimeSteps == {12 * Hour, 13 * Hour}

TimePasses(d) ==
    /\ Rolling(variant)
    /\ clock + d <= MaxHours * Hour
    /\ clock' = clock + d
    /\ UNCHANGED <<variant, cycleVars, latestCollections, diskVars, response,
                   obsVars, queryVars>>

Outcomes == {"buffer", "null", "throw"}

Next ==
    \/ \E c \in Slots : Tick(c) /\ UNCHANGED trail
    \/ \E c \in Slots, list \in FewLists : FetchReturns(c, list) /\ UNCHANGED trail
    \/ \E c \in Slots : FetchRejects(c) /\ UNCHANGED trail
    \/ \E c \in Slots, outcome \in Outcomes : RenderReturns(c, outcome) /\ UNCHANGED trail
    \/ \E d \in TimeSteps : TimePasses(d) /\ UNCHANGED trail

Spec == Init /\ [][Next]_vars

\* index.js and working_redGreen.js under the same timer, with two
\* invocations that may overlap and lists of different collections
PairLists == {<<>>, FullList, NewcomerList}

Pair == {1, 2}

InitPaired ==
    /\ Init
    /\ variant \in {"index", "redGreen"}

NextPaired ==
    \/ \E c \in Pair : Tick(c) /\ UNCHANGED trail
    \/ \E c \in Pair, list \in PairLists : FetchReturns(c, list) /\ UNCHANGED trail
    \/ \E c \in Pair : FetchRejects(c) /\ UNCHANGED trail
    \/ \E c \in Pair, outcome \in Outcomes : RenderReturns(c, outcome) /\ UNCHANGED trail

SpecPaired == InitPaired /\ [][NextPaired]_vars

----------------------------------------------------------------------------
(* GET /metadata/:tokenId *)

TokenIds == 0..(Target + 1)

\* the answer for tokenId, given the cache
Metadata(v, cache, tokenId) ==
    IF ~HasCache(v)
    THEN IF tokenId < 1 \/ tokenId > Target
         THEN [status |-> 404, tokenId |-> tokenId, id |-> "none"]
         ELSE [status |-> 200, tokenId |-> tokenId, id |-> "none"]
    ELSE IF Guarded(v)
    THEN IF tokenId < 1 \/ tokenId > Len(cache) \/ Len(cache) = 0
         THEN [status |-> 404, tokenId |-> tokenId, id |-> "none"]
         ELSE IF cache[tokenId] = NoRec
         THEN [status |-> 500, tokenId |-> tokenId, id |-> "none"]
         ELSE [status |-> 200, tokenId |-> tokenId, id |-> cache[tokenId]]
    ELSE IF tokenId < 1 \/ tokenId > Target \/ Len(cache) = 0
         THEN [status |-> 404, tokenId |-> tokenId, id |-> "none"]
         \* collection.name of undefined: express answers 500
         ELSE IF tokenId > Len(cache) \/ cache[tokenId] = NoRec
         THEN [status |-> 500, tokenId |-> tokenId, id |-> "none"]
         ELSE [status |-> 200, tokenId |-> tokenId, id |-> cache[tokenId]]

GetMetadata(tokenId) ==
    /\ response' = Metadata(variant, latestCollections, tokenId)
    /\ UNCHANGED <<variant, clock, cycleVars, latestCollections, diskVars,
                   obsVars, queryVars>>

----------------------------------------------------------------------------
(* The runs in which no timer tick finds a cycle in flight *)

Pattern == <<"up", "same", "same", "down", "same">>

\* The colour trail of id "a": the colours persisted for it by the latest
\* successful cycles, as far as their movements of "a" spell a prefix of
\* Pattern.
RecordTrail ==
    IF pc'[1] = "done" /\ pc[1] # "done" /\ HasColors(variant)
    THEN IF "a" \in DOMAIN colorsFile'.map
         THEN LET movement == moves'[1][rankingsFile'.map["a"]]
                  color == colorsFile'.map["a"]
              IN trail' = IF Len(trail) < Len(Pattern)
                             /\ movement = Pattern[Len(trail) + 1]
                          THEN Append(trail, color)
                          ELSE IF movement = Pattern[1] THEN <<color>> ELSE <<>>
         ELSE trail' = <<>>
    ELSE trail' = trail

NextSerial ==
    \/ TickAfterEnd /\ RecordTrail
    \/ \E list \in CleanLists : FetchReturns(1, list) /\ RecordTrail
    \/ FetchRejects(1) /\ RecordTrail
    \/ \E outcome \in Outcomes : RenderReturns(1, outcome) /\ RecordTrail
    \/ \E d \in TimeSteps : TimePasses(d) /\ RecordTrail

SpecSerial == InitSerial /\ [][NextSerial]_vars

\* the same runs with few lists, and requests arriving at any time
NextServe ==
    \/ TickAfterEnd /\ UNCHANGED trail
    \/ \E list \in FewLists : FetchReturns(1, list) /\ UNCHANGED trail
    \/ FetchRejects(1) /\ UNCHANGED trail
    \/ \E outcome \in Outcomes : RenderReturns(1, outcome) /\ UNCHANGED trail
    \/ \E tokenId \in TokenIds : GetMetadata(tokenId) /\ UNCHANGED trail

SpecServe == Init /\ [][NextServe]_vars

----------------------------------------------------------------------------
(* getRankMovement, called on its own *)

ClaimRanks == 1..100

\* JSON.parse(readFileSync(...)) is not in a try block here
getRankMovement(currentRank, collectionId) ==
    IF ~rankingsFile.present THEN "threw"
    ELSE Classify(currentRank, PreviousRankOf(rankingsFile.map, collectionId))

InitMovement ==
    /\ variant = "lastCycle"
    /\ rankingsFile \in {NoFile, FileOf(EmptyMap)}
                        \cup {FileOf(Put(EmptyMap, "a", r)) : r \in ClaimRanks}
    /\ historyFile = NoHistory
    /\ InitCycles
    /\ InitRest
    /\ qRank \in ClaimRanks
    /\ qResult = "none"
    /\ NoLookup
    /\ NoRetry
    /\ NoPaging
    /\ upstream = NoUpstream

CallGetRankMovement ==
    /\ qResult = "none"
    /\ qResult' = getRankMovement(qRank, "a")
    /\ UNCHANGED <<variant, clock, cycleVars, latestCollections, diskVars,
                   response, obsVars, trail, qRank, lookupVars, retryVars,
                   pagingVars, upstream>>

NextMovement == CallGetRankMovement

SpecMovement == InitMovement /\ [][NextMovement]_vars

----------------------------------------------------------------------------
(* fetchWithRetry (index.js) and fetchTopCollections *)

Pow2Linear(i) == i + 1

RECURSIVE Pow2(_)
Pow2(i) == IF i = 0 THEN 1 ELSE 2 * Pow2(i - 1)

\* what one attempt of fetch(url, options) can meet: a 2xx response, a 429,
\* another non-2xx response, or a transport error
AttemptOutcomes == {"ok", "429", "bad", "error"}

RetryFromAll(attempts, i, waits) ==
    LET first == {k \in 1..Retries : attempts[k] = "ok"}
        n == IF first = {} THEN Retries ELSE Min(first)
    IN [called |-> TRUE,
        value |-> IF first = {} THEN "null" ELSE "response",
        attempts |-> n,
        waits |-> [k \in 1..(n - 1) |-> Delay * Pow2(k - 1)]]

\* the for loop of fetchWithRetry from attempt i (0-based) on; falling out
\* of the loop returns undefined
RECURSIVE RetryFrom(_, _, _)
RetryFrom(attempts, i, waits) ==
    IF i >= Retries
    THEN [called |-> TRUE, value |-> "undefined", attempts |-> i, waits |-> waits]
    ELSE LET waitTime == Delay * Pow2(i)
         IN CASE attempts[i + 1] = "429" ->
                   RetryFrom(attempts, i + 1, Append(waits, waitTime))
              [] attempts[i + 1] = "bad" ->
                   [called |-> TRUE, value |-> "null", attempts |-> i + 1, waits |-> waits]
              [] attempts[i + 1] = "ok" ->
                   [called |-> TRUE, value |-> "response", attempts |-> i + 1, waits |-> waits]
              [] OTHER ->
                   IF i = Retries - 1
                   THEN [called |-> TRUE, value |-> "null", attempts |-> i + 1, waits |-> waits]
                   ELSE RetryFrom(attempts, i + 1, Append(waits, waitTime))

fetchWithRetry(attempts) == RetryFrom(attempts, 0, <<>>)

InitRetry ==
    /\ variant = "index"
    /\ rankingsFile = NoFile
    /\ historyFile = NoHistory
    /\ InitCycles
    /\ InitRest
    /\ qRank = 0
    /\ qResult = "none"
    /\ NoLookup
    /\ qAttempts \in [1..Retries -> AttemptOutcomes]
    /\ qRetry = NotTried
    /\ NoPaging
    /\ upstream = NoUpstream

CallFetchWithRetry ==
    /\ ~qRetry.called
    /\ qRetry' = fetchWithRetry(qAttempts)
    /\ UNCHANGED <<variant, clock, cycleVars, latestCollections, diskVars,
                   response, obsVars, trail, movementVars, lookupVars,
                   qAttempts, pagingVars, upstream>>

NextRetry == CallFetchWithRetry

SpecRetry == InitRetry /\ [][NextRetry]_vars

\* What a page request can meet. "failed": no usable response (index.js:
\* fetchWithRetry gave null or undefined; the other files: !response.ok);
\* "error": the transport failed on every attempt; "malformed": the body is
\* not JSON; "noarray": JSON without a collections array.
PageOutcomes == {"ok", "failed", "error", "malformed", "noarray"}

\* requests one fetch can make
MaxPages == (Target + PageLimit - 1) \div PageLimit

Resolved(acc, k) ==
    [rejected |-> FALSE, list |-> SubSeq(acc, 1, Min({Len(acc), Target})),
     requests |-> k, running |-> FALSE]

Rejected(k) == [rejected |-> TRUE, list |-> <<>>, requests |-> k, running |-> FALSE]

\* the loop has used up the answers it was given and asks on
Running(acc, k) == [rejected |-> FALSE, list |-> <<>>, requests |-> k, running |-> TRUE]

PaginateNoEmptyCheck(v, answers, k, acc) ==
    LET RECURSIVE Go(_, _)
        Go(n, got) ==
            IF Len(got) >= Target THEN Resolved(got, n - 1)
            ELSE IF n > Len(answers) THEN Running(got, n - 1)
            ELSE IF answers[n].outcome = "malformed" THEN Rejected(n)
            ELSE IF answers[n].outcome # "ok" THEN Resolved(got, n)
            ELSE IF ~answers[n].continuation THEN Resolved(got \o answers[n].records, n)
            ELSE Go(n + 1, got \o answers[n].records)
    IN Go(k, acc)

\* The while loop of fetchTopCollections at its k-th request, collections
\* being acc. answers[k] is what the k-th request meets: its outcome and,
\* for "ok", data.collections and whether data.continuation is set.
RECURSIVE Paginate(_, _, _, _)
Paginate(v, answers, k, acc) ==
    IF Len(acc) >= Target THEN Resolved(acc, k - 1)
    ELSE IF k > Len(answers) THEN Running(acc, k - 1)
    ELSE LET data == answers[k].records
             continuation == answers[k].continuation
             more == acc \o data
         IN IF Guarded(v)
            THEN CASE answers[k].outcome \in {"failed", "error"} -> Resolved(acc, k)
                   [] answers[k].outcome = "malformed" -> Rejected(k)
                   [] answers[k].outcome = "noarray" -> Resolved(acc, k)
                   [] OTHER ->
                        IF Len(data) = 0 THEN Resolved(acc, k)
                        ELSE IF ~continuation \/ Len(more) >= Target
                        THEN Resolved(more, k)
                        ELSE Paginate(v, answers, k + 1, more)
            ELSE CASE answers[k].outcome = "failed" -> Resolved(acc, k)
                   [] answers[k].outcome \in {"error", "malformed"} -> Rejected(k)
                   \* [].concat(undefined) is [undefined]
                   [] answers[k].outcome = "noarray" -> Resolved(Append(acc, NoRec), k)
                   [] OTHER ->
                        IF ~continuation THEN Resolved(more, k)
                        ELSE Paginate(v, answers, k + 1, more)

\* the answers of an upstream that lists market, page after page
AnswersOf(market, pages) ==
    [k \in 1..Len(pages) |->
        [outcome |-> pages[k],
         records |-> IF (k - 1) * PageLimit >= Len(market) THEN <<>>
                     ELSE SubSeq(market, (k - 1) * PageLimit + 1,
                                 Min({k * PageLimit, Len(market)})),
         continuation |-> Len(market) > k * PageLimit]]

FetchFrom(v, market, pages, k, acc) ==
    Paginate(v, AnswersOf(market, pages), k, acc)

fetchTopCollections(v, market, pages) == FetchFrom(v, market, pages, 1, <<>>)

\* the upstream lists one collection more than the target
FullMarket == [k \in 1..(Target + 1) |-> IdPool[k]]
\* a list with a null element, one with a record without id, and one that
\* names the first collection again in its last place
HoleMarket == [k \in 1..Target |-> IF k = 2 THEN NoRec ELSE IdPool[k]]
AnonMarket == [k \in 1..Target |-> IF k = 2 THEN NoId ELSE IdPool[k]]
TwiceMarket == [k \in 1..Target |-> IF k = Target THEN IdPool[1] ELSE IdPool[k]]

Markets == {SubSeq(FullMarket, 1, n) : n \in {0, 1, Target, Target + 1}}
              \cup {HoleMarket, AnonMarket, TwiceMarket}

\* fetchTopCollections settles for invocation c; updateRankings runs on
FetchSettles(c, market, pages) ==
    LET r == fetchTopCollections(variant, market, pages)
    IN /\ IF r.rejected THEN FetchFails(c) ELSE FetchResolves(c, r.list)
       /\ upstream' = [market |-> market, pages |-> SubSeq(pages, 1, r.requests),
                       requests |-> r.requests]
       /\ UNCHANGED <<movementVars, lookupVars, retryVars, pagingVars>>

NextFetch ==
    \/ TickAfterEnd /\ UNCHANGED trail
    \/ \E market \in Markets, pages \in [1..MaxPages -> PageOutcomes] :
          FetchSettles(1, market, pages) /\ UNCHANGED trail
    \/ \E outcome \in Outcomes : RenderReturns(1, outcome) /\ UNCHANGED trail

SpecFetch == Init /\ [][NextFetch]_vars

----------------------------------------------------------------------------
(* fetchTopCollections, called on its own *)

\* What a page can be: an outcome other than "ok", or a body with up to
\* PageLimit records, with or without a continuation token.
PageKinds ==
    {[outcome |-> o, size |-> 0, continuation |-> FALSE] :
        o \in PageOutcomes \ {"ok"}}
    \cup {[outcome |-> "ok", size |-> n, continuation |-> b] :
              n \in 0..PageLimit, b \in BOOLEAN}

\* the j-th record of page k is <<k, j>>
PageOf(kind, k) ==
    [outcome |-> kind.outcome,
     records |-> [j \in 1..kind.size |-> <<k, j>>],
     continuation |-> kind.continuation]

\* as many answers as the target has records
PageRuns == {[k \in 1..Target |-> PageOf(f[k], k)] : f \in [1..Target -> PageKinds]}

InitPaging ==
    /\ variant \in {"index", "rolling"}
    /\ rankingsFile = NoFile
    /\ historyFile = NoHistory
    /\ InitCycles
    /\ InitRest
    /\ qRank = 0
    /\ qResult = "none"
    /\ NoLookup
    /\ NoRetry
    /\ qAnswers \in PageRuns
    /\ qFetched = NotFetched
    /\ upstream = NoUpstream

CallFetchTopCollections ==
    /\ ~qFetched.called
    /\ qFetched' = [called |-> TRUE] @@ Paginate(variant, qAnswers, 1, <<>>)
    /\ UNCHANGED <<variant, clock, cycleVars, latestCollections, diskVars,
                   response, obsVars, trail, movementVars, lookupVars,
                   retryVars, qAnswers, upstream>>

NextPaging == CallFetchTopCollections

SpecPaging == InitPaging /\ [][NextPaging]_vars

----------------------------------------------------------------------------
(* getPreviousRankings, called on its own *)

LookupTarget == 2 * Hour

\* snapshot times around the target: at the tolerance, one second beyond it
\* and one second off the target, on either side
LookupOffsets == {0 - (Tolerance + 1), 0 - Tolerance, 0 - 1, 1, Tolerance, Tolerance + 1}

\* rankings that tell the snapshots of a history apart
LookupRankings == {Put(EmptyMap, "a", 1), Put(EmptyMap, "a", 2)}

LookupSnapshots ==
    {[timestamp |-> LookupTarget + d, rankings |-> m] :
        d \in LookupOffsets, m \in LookupRankings}

LookupHistories == UNION {[1..n -> LookupSnapshots] : n \in 0..MaxLookup}

InitLookup ==
    /\ variant = "rolling"
    /\ rankingsFile = NoFile
    /\ historyFile = NoHistory
    /\ InitCycles
    /\ InitRest
    /\ qRank = 0
    /\ qResult = "none"
    /\ qHistory \in LookupHistories
    /\ qTargetTime = LookupTarget
    /\ qFound = NotFound
    /\ qNow = 0
    /\ qKept = NotKept
    /\ NoRetry
    /\ NoPaging
    /\ upstream = NoUpstream

CallGetPreviousRankings ==
    /\ ~qFound.called
    /\ qFound' = [called |-> TRUE, value |-> getPreviousRankings(qHistory, qTargetTime)]
    /\ UNCHANGED <<variant, clock, cycleVars, latestCollections, diskVars,
                   response, obsVars, trail, movementVars, qHistory,
                   qTargetTime, qNow, qKept, retryVars, pagingVars, upstream>>

NextLookup == CallGetPreviousRankings

SpecLookup == InitLookup /\ [][NextLookup]_vars

----------------------------------------------------------------------------
(* The prune of one cycle and the lookup of a later one *)

PruneNow == 30 * Hour

\* snapshot times around the cutoff now - 25 h: one hour and one second
\* before it, at it, one second and one hour after it
PruneOffsets == {0 - Hour, 0 - 1, 0, 1, Hour}

PruneSnapshots ==
    {[timestamp |-> PruneNow - RetainHours * Hour + d, rankings |-> m] :
        d \in PruneOffsets, m \in LookupRankings}

PruneHistories == UNION {[1..n -> PruneSnapshots] : n \in 0..MaxLookup}

\* how much later than the pruning cycle the next cycle takes its now
LaterBy == {0, 1, Hour}

InitPrune ==
    /\ variant = "rolling"
    /\ rankingsFile = NoFile
    /\ historyFile = NoHistory
    /\ InitCycles
    /\ InitRest
    /\ qRank = 0
    /\ qResult = "none"
    /\ qHistory \in PruneHistories
    /\ qNow = PruneNow
    /\ qTargetTime \in {PruneNow + d - LookbackHours * Hour : d \in LaterBy}
    /\ qFound = NotFound
    /\ qKept = NotKept
    /\ NoRetry
    /\ NoPaging
    /\ upstream = NoUpstream

\* the filter at the end of the cycle whose now is qNow
CallPrune ==
    /\ ~qKept.called
    /\ qKept' = [called |-> TRUE, value |-> PruneAt(qHistory, qNow)]
    /\ UNCHANGED <<variant, clock, cycleVars, latestCollections, diskVars,
                   response, obsVars, trail, movementVars, qHistory,
                   qTargetTime, qFound, qNow, retryVars, pagingVars, upstream>>

\* the lookup of a later cycle in the history the first one left
CallLaterLookup ==
    /\ qKept.called
    /\ ~qFound.called
    /\ qFound' = [called |-> TRUE,
                  value |-> getPreviousRankings(qKept.value, qTargetTime)]
    /\ UNCHANGED <<variant, clock, cycleVars, latestCollections, diskVars,
                   response, obsVars, trail, movementVars, qHistory,
                   qTargetTime, qNow, qKept, retryVars, pagingVars, upstream>>

NextPrune ==
    \/ CallPrune
    \/ CallLaterLookup

SpecPrune == InitPrune /\ [][NextPrune]_vars

----------------------------------------------------------------------------
(* Properties *)

\* C1: for every currentRank in 1..100 and every reference rank in 1..101
\* (101 when the id has no recorded rank), the movement is "up" iff
\* currentRank < reference, "down" iff currentRank > reference, "same" iff
\* they are equal, and it is one of the three.
C1_MovementClassification ==
    qResult \notin {"none", "threw"} =>
        LET referenceRank == IF "a" \in DOMAIN rankingsFile.map
                             THEN rankingsFile.map["a"] ELSE 101
        IN /\ qRank \in 1..100
           /\ referenceRank \in 1..101
           /\ qResult \in {"up", "down", "same"}
           /\ (qResult = "up") <=> (qRank < referenceRank)
           /\ (qResult = "down") <=> (qRank > referenceRank)
           /\ (qResult = "same") <=> (qRank = referenceRank)

\* rank 100 against a recorded rank 99 has been classified "down"
C1_Witness ==
    /\ qResult = "down"
    /\ qRank = 100
    /\ "a" \in DOMAIN rankingsFile.map
    /\ rankingsFile.map["a"] = 99

\* the collection the loop of invocation c handled at rank r
RankedKey(c, r) == KeyOf(collections[c][r])

PatternColors == <<"green", "green", "green", "red", "red">>

C3_TrailColors ==
    \A k \in 1..Len(trail) : trail[k] = PatternColors[k]

C3_StickyStep ==
    (pc'[1] = "done" /\ pc[1] # "done" /\ HasColors(variant)) =>
        \A id \in DOMAIN colorsFile'.map :
            LET movement == moves'[1][rankingsFile'.map[id]]
            IN colorsFile'.map[id] =
                  IF movement = "up" THEN "green"
                  ELSE IF movement = "down" THEN "red"
                  ELSE IF colorsFile.present /\ id \in DOMAIN colorsFile.map
                       THEN colorsFile.map[id]
                       ELSE "red"

\* C3: over successful cycles that follow one another, the colour persisted
\* for a collection is "green" if its movement in the cycle was up, "red" if
\* it was down, and otherwise the colour the preceding cycle persisted for it
\* ("red" when none is recorded); the movements up, same, same, down, same of
\* one collection give green, green, green, red, red.
C3_StickyColor == []C3_TrailColors /\ [][C3_StickyStep]_vars

\* five successful cycles have moved "a" up, same, same, down, same
C3_Witness == trail = PatternColors

\* C4: the step in which an invocation learns that the fetch gave zero
\* collections writes no rankings, colours, history or image file and ends
\* the invocation.
C4_ZeroFetchWritesNothing ==
    [][\A c \in Slots :
          (pc[c] = "fetching" /\ pc'[c] \notin {"fetching", "rejected"}
                              /\ collections'[c] = <<>>)
              => (diskVars' = diskVars /\ pc'[c] = "aborted")]_vars

\* a cycle has ended on a zero fetch while an earlier cycle's state is on disk
C4_Witness ==
    \E c \in Slots :
        /\ pc[c] = "aborted"
        /\ rankingsFile.present \/ historyFile.present

\* C5: a cycle that fetched zero collections has left the in-memory cache
\* as it was, so the metadata handler keeps answering from the last list.
C5_CacheKeptOnZeroFetch ==
    \A c \in Slots : pc[c] = "aborted" => ~wrote[c].cache

NothingChanged(c) ==
    ~wrote[c].cache /\ ~wrote[c].state /\ wrote[c].images = {}

AllUpdated(c) ==
    /\ HasCache(variant) => wrote[c].cache
    /\ wrote[c].state
    /\ wrote[c].images = 1..Len(collections[c])

\* C6: when an invocation has ended, normally or by an error, either the
\* cache, the images of ranks 1..N and the persisted state were all written
\* by it, or it changed none of them.
C6_CycleAtomic ==
    \A c \in Slots : pc[c] \in Ended => (AllUpdated(c) \/ NothingChanged(c))

\* C7: at no time are two invocations of updateRankings in flight.
C7_CyclesSerialized ==
    Cardinality({c \in Slots : pc[c] \in InFlight}) <= 1

\* C8: whenever the cache holds the list of an invocation, every image of
\* the ranks 1..N was written by that invocation.
C8_CacheAfterImages ==
    \A c \in Slots : cacheBy = c =>
        \A r \in 1..Len(latestCollections) : images[r] = c

C9_ExactMapping ==
    \A c \in Slots :
        (pc[c] = "done" /\ rankingsBy = c /\ ~Rolling(variant)) =>
            /\ rankingsFile.present
            /\ DOMAIN rankingsFile.map = {collections[c][k] : k \in 1..Len(collections[c])}
            /\ \A k \in 1..Len(collections[c]) : rankingsFile.map[collections[c][k]] = k

C9_EmptyPriorAllUp ==
    \A c \in Slots :
        (pc[c] = "rendering" /\ previousRankings[c] = FileOf(EmptyMap)) =>
            \A r \in DOMAIN moves[c] : moves[c][r] = "up"

\* C9: after a successful cycle over a list of records with distinct ids the
\* rankings file is exactly {c_i.id -> i+1}, nothing carried over; with empty
\* prior state every record is classified "up", and the list [a, b, c] leaves
\* {a:1, b:2, c:3}.
C9_PersistedMapping == C9_ExactMapping /\ C9_EmptyPriorAllUp

\* a cycle over [a, b, c] has classified all three "up" and left
\* {a:1, b:2, c:3}
C9_Witness ==
    /\ ~Rolling(variant)
    /\ pc[1] = "done"
    /\ collections[1] = <<"a", "b", "c">>
    /\ rankingsFile = FileOf([id \in {"a", "b", "c"} |->
                                IF id = "a" THEN 1 ELSE IF id = "b" THEN 2 ELSE 3])
    /\ moves[1] = [r \in 1..3 |-> "up"]

\* C10: an invocation that fetched N collections, 1 <= N < target, and whose
\* renders all succeeded, ends without error, has written exactly the images
\* of ranks 1..N and has persisted its state.
C10_ShortListProcessed ==
    \A c \in Slots :
        (pc[c] \in Ended /\ Len(collections[c]) >= 1 /\ Len(collections[c]) < Target
            /\ ~wrote[c].failed) =>
                /\ pc[c] = "done"
                /\ wrote[c].images = 1..Len(collections[c])
                /\ wrote[c].state

\* C11: getPreviousRankings gives null for an empty history; otherwise, with
\* m the least |timestamp - targetTime| over the history, it gives the
\* rankings of the first snapshot at distance m when m <= 3600 and null when
\* m > 3600.
C11_ClosestWithinTolerance ==
    qFound.called =>
        LET dist(k) == Abs(qHistory[k].timestamp - qTargetTime)
        IN IF Len(qHistory) = 0 THEN ~qFound.value.present
           ELSE LET m == Min({dist(k) : k \in 1..Len(qHistory)})
                    first == Min({k \in 1..Len(qHistory) : dist(k) = m})
                IN IF m <= 3600
                   THEN qFound.value = FileOf(qHistory[first].rankings)
                   ELSE ~qFound.value.present

\* two snapshots with different rankings lie exactly 3600 s before and after
\* the target, and the call gave the rankings of the one met first
C11_Witness ==
    /\ qFound.called
    /\ Len(qHistory) >= 2
    /\ qHistory[1].timestamp = qTargetTime + 3600
    /\ qHistory[2].timestamp = qTargetTime - 3600
    /\ qHistory[1].rankings # qHistory[2].rankings
    /\ qFound.value = FileOf(qHistory[1].rankings)

C12_AppendPruneStep ==
    (Rolling(variant) /\ pc[1] = "rendering" /\ pc'[1] = "done") =>
        LET loaded == history[1]
            out == historyFile'.snaps
            kept == {k \in 1..Len(loaded) : loaded[k].timestamp >= now[1] - 25 * 3600}
            nth(j) == CHOOSE k \in kept : Cardinality({x \in kept : x < k}) = j - 1
        IN /\ historyFile'.present
           /\ ~IsGarbled(historyFile')
           /\ Len(out) = Cardinality(kept) + 1
           /\ \A j \in 1..Cardinality(kept) : out[j] = loaded[nth(j)]
           /\ out[Len(out)] = [timestamp |-> now[1],
                                rankings |-> RankMapOf(collections[1])]

\* C12: the step that ends a successful cycle of the rolling-history server
\* writes the history it loaded, without exactly the snapshots of timestamp
\* < now - 25*3600 and in the same order, followed by the new snapshot
\* {timestamp: now, rankings}.
C12_AppendPrune == [][C12_AppendPruneStep]_vars

\* a cycle has kept a snapshot taken exactly 25 hours before it and has
\* appended its own behind the two it loaded
C12_Witness ==
    /\ Rolling(variant)
    /\ pc[1] = "done"
    /\ Len(historyFile.snaps) = 3
    /\ historyFile.snaps[1].timestamp = historyFile.snaps[3].timestamp - 25 * 3600

\* a page request of the fetch that settled last got no usable response
PageRequestFailed ==
    \E k \in 1..upstream.requests : upstream.pages[k] \in {"failed", "error"}

\* C13: when a page request of the fetch has failed, the fetch has yielded
\* no collections, so the invocation holds an empty list and processes none.
C13_PartialDiscarded ==
    (pc[1] \notin {"idle", "fetching"} /\ PageRequestFailed) => collections[1] = <<>>

UpstreamFailed ==
    \E k \in 1..upstream.requests : upstream.pages[k] # "ok"

\* C15: in index.js, whatever the upstream answered, no exception has
\* escaped updateRankings, and an invocation whose fetch gave nothing because
\* of it has ended aborted.
C15_UpstreamNeverFatal ==
    (Guarded(variant) /\ pc[1] \notin {"idle", "fetching"} /\ UpstreamFailed) =>
        /\ pc[1] # "rejected"
        /\ collections[1] = <<>> => pc[1] = "aborted"

\* C16: for the variants with a cache, every answer of GET /metadata/{rank}
\* is 404 when the cache is empty or rank is outside 1..length of the cache,
\* and otherwise 200 with the cached record at position rank - 1.
C16_NotFoundRule ==
    [][(HasCache(variant) /\ response' # response) =>
          LET t == response'.tokenId
              n == Len(latestCollections)
          IN IF n = 0 \/ t < 1 \/ t > n
             THEN response'.status = 404
             ELSE /\ response'.status = 200
                  /\ response'.id = latestCollections[t]]_vars

\* the state file of the variant was missing or unparsable when invocation c
\* loaded it
LostAtLoad(c) ==
    IF Rolling(variant) THEN history[c] = <<>>
    ELSE previousRankings[c] = FileOf(EmptyMap)

Lost(file) == ~file.present \/ IsGarbled(file)

C17_LoadStep ==
    (/\ pc[1] = "fetching"
     /\ pc'[1] \notin {"fetching", "rejected", "aborted"}
     /\ Lost(IF Rolling(variant) THEN historyFile ELSE rankingsFile)) =>
        /\ pc'[1] = "rendering"
        /\ previousRankings'[1].map = EmptyMap
        /\ history'[1] = <<>>
        /\ moves'[1][1] = IF Rolling(variant) THEN "same" ELSE "up"

C17_LostStateMoves ==
    \A c \in Slots : (pc[c] = "rendering" /\ LostAtLoad(c)) =>
        \A r \in DOMAIN moves[c] :
            moves[c][r] = IF Rolling(variant) THEN "same" ELSE "up"

Malformed(c) ==
    {k \in 1..Len(collections[c]) : collections[c][k] \in {NoId, NoRec}}

\* C18: in index.js a cycle skips the records that are missing or have no
\* id: it writes no image for their positions and persists no entry for
\* them, computes a movement for every other record, and, unless a render
\* threw, ends normally with its state persisted.
C18_MalformedSkipped ==
    /\ (Guarded(variant) /\ pc[1] = "done") =>
          LET good == (1..Len(collections[1])) \ Malformed(1)
          IN /\ wrote[1].state
             /\ rankingsFile.present
             /\ wrote[1].images \cap Malformed(1) = {}
             /\ DOMAIN rankingsFile.map = {collections[1][k] : k \in good}
             /\ DOMAIN colorsFile.map = {collections[1][k] : k \in good}
             /\ DOMAIN moves[1] = good
             /\ ~wrote[1].failed => wrote[1].images = good
    /\ (Guarded(variant) /\ pc[1] = "threw") => wrote[1].failed

\* a cycle over [a, null, c] has written the images of ranks 1 and 3 and
\* persisted a and c only
C18_Witness ==
    /\ Guarded(variant)
    /\ pc[1] = "done"
    /\ collections[1] = HoleMarket
    /\ wrote[1].images = {1, Target}
    /\ "b" \notin DOMAIN rankingsFile.map
    /\ rankingsFile.map["a"] = 1

\* C19: in index.js an invocation in which the render of a rank failed has,
\* when it has ended, ended normally with its state persisted.
C19_ImageFailureIsolated ==
    (Guarded(variant) /\ pc[1] \in Ended /\ wrote[1].failed) =>
        pc[1] = "done" /\ wrote[1].state

\* the id -> rank mapping the latest successful cycle persisted
PersistedRankings ==
    IF Rolling(variant) THEN historyFile.snaps[Len(historyFile.snaps)].rankings
    ELSE rankingsFile.map

RanksOf(map) == {map[k] : k \in DOMAIN map}

\* C20 as stated: after every successful cycle the ranks of the persisted
\* mapping are exactly 1..N, N = min(100, collections returned).
C20_DenseRanks ==
    (pc[1] = "done" /\ rankingsBy = 1) =>
        RanksOf(PersistedRankings) = 1..Min({Target, Len(collections[1])})

\* C20 amended: after a successful cycle every persisted rank is the list
\* position of its id and no two ids share a rank; the ranks are exactly
\* 1..N when the list holds N records with pairwise distinct ids; the rank of
\* a record skipped as malformed (index.js) is assigned to no id, and of an id
\* that occurs twice only the last position is persisted.
C20_RanksArePositions ==
    (pc[1] = "done" /\ rankingsBy = 1) =>
        LET coll == collections[1]
            kept == {k \in 1..Len(coll) :
                       /\ ~(Guarded(variant) /\ k \in Malformed(1))
                       /\ \A j \in (k + 1)..Len(coll) : KeyOf(coll[j]) # KeyOf(coll[k])}
        IN /\ RanksOf(PersistedRankings) = kept
           /\ \A k \in kept : PersistedRankings[KeyOf(coll[k])] = k
           /\ Cardinality(DOMAIN PersistedRankings) = Cardinality(kept)

\* a cycle over a list that names "a" first and last has persisted the
\* ranks 2..N only, "a" at N
C20_Witness ==
    /\ pc[1] = "done"
    /\ rankingsBy = 1
    /\ collections[1] = TwiceMarket
    /\ RanksOf(PersistedRankings) = 2..Target
    /\ PersistedRankings["a"] = Target

\* C21: every snapshot the prune of a cycle at time now removed is more
\* than 3600 s away from the target time now' - 24*3600 of a later cycle,
\* now' >= now, and the lookup of that cycle finds in the pruned history what
\* it would have found in the unpruned one.
C21_PruneKeepsReference ==
    /\ qKept.called =>
          \A k \in 1..Len(qHistory) :
              (\A j \in 1..Len(qKept.value) : qKept.value[j] # qHistory[k]) =>
                  /\ qHistory[k].timestamp < qNow - 25 * 3600
                  /\ qTargetTime >= qNow - 24 * 3600
                  /\ Abs(qHistory[k].timestamp - qTargetTime) > 3600
    /\ (qKept.called /\ qFound.called) =>
          qFound.value = getPreviousRankings(qHistory, qTargetTime)

\* a snapshot one second older than the cutoff was removed, 3601 s from the
\* target of the next lookup, which found the snapshot kept at the cutoff
C21_Witness ==
    /\ qKept.called
    /\ qFound.called
    /\ qFound.value.present
    /\ qTargetTime = qNow - 24 * 3600
    /\ \E k \in 1..Len(qHistory) :
          /\ qHistory[k].timestamp = qNow - 25 * 3600 - 1
          /\ \A j \in 1..Len(qKept.value) : qKept.value[j] # qHistory[k]
    /\ \E j \in 1..Len(qKept.value) : qKept.value[j].timestamp = qNow - 25 * 3600

\* the records of the first n answers, in order
RECURSIVE RecordsUpTo(_, _)
RecordsUpTo(answers, n) ==
    IF n = 0 THEN <<>>
    ELSE RecordsUpTo(answers, n - 1)
            \o (IF answers[n].outcome = "ok" THEN answers[n].records ELSE <<>>)

\* C22: whatever the page requests meet, fetchTopCollections of index.js
\* ends after at most target requests; every request but its last met a
\* page with at least one record; the result has at most target records and
\* is the start of the records of the pages in upstream order.
C22_PaginationBounded ==
    (Guarded(variant) /\ qFetched.called) =>
        /\ ~qFetched.running
        /\ qFetched.requests <= Target
        /\ \A k \in 1..(qFetched.requests - 1) :
              /\ qAnswers[k].outcome = "ok"
              /\ Len(qAnswers[k].records) >= 1
              /\ qAnswers[k].continuation
        /\ Len(qFetched.list) <= Target
        /\ ~qFetched.rejected =>
              LET all == RecordsUpTo(qAnswers, qFetched.requests)
              IN qFetched.list = SubSeq(all, 1, Min({Len(all), Target}))

\* one record per page: the fetch made target requests and returned their
\* records in order
C22_Witness ==
    /\ Guarded(variant)
    /\ qFetched.called
    /\ qFetched.requests = Target
    /\ qFetched.list = [k \in 1..Target |-> <<k, 1>>]

\* C23: one call of fetchWithRetry makes at most 3 requests; the k-th wait
\* it makes is delay * 2^(k-1) ms (1000, 2000, 4000), one after every
\* attempt that met a 429 and after every transport error but a third; it
\* returns the response only when its last attempt met a 2xx answer, and
\* null or undefined otherwise, undefined after three 429 answers.
C23_RetryBoundAndBackoff ==
    qRetry.called =>
        /\ qRetry.attempts \in 1..3
        /\ qRetry.value \in {"response", "null", "undefined"}
        /\ (qRetry.value = "response") <=> (qAttempts[qRetry.attempts] = "ok")
        /\ \A k \in 1..(qRetry.attempts - 1) : qAttempts[k] \in {"429", "error"}
        /\ Len(qRetry.waits) <= 3
        /\ \A k \in 1..Len(qRetry.waits) :
              /\ qRetry.waits[k] = 1000 * 2^(k - 1)
              /\ qAttempts[k] \in {"429", "error"}
        /\ (\A k \in 1..3 : qAttempts[k] = "429") =>
              /\ qRetry.value = "undefined"
              /\ qRetry.waits = <<1000, 2000, 4000>>

\* three 429 answers: three requests, waits of 1000, 2000 and 4000 ms, and
\* undefined returned
C23_Witness ==
    /\ qRetry.called
    /\ qAttempts = <<"429", "429", "429">>
    /\ qRetry.attempts = 3
    /\ qRetry.value = "undefined"
    /\ qRetry.waits = <<1000, 2000, 4000>>

\* C24: a cycle of the rolling-history server whose loaded history is empty,
\* or has no snapshot within 3600 s of now - 24 h, classifies every
\* collection "same".
C24_NoReferenceAllSame ==
    \A c \in Slots :
        (/\ Rolling(variant)
         /\ pc[c] = "rendering"
         /\ \A k \in 1..Len(history[c]) :
               Abs(history[c][k].timestamp - (now[c] - 24 * 3600)) > 3600) =>
            /\ ~previousRankings[c].present
            /\ \A r \in DOMAIN moves[c] : moves[c][r] = "same"

\* a cycle loaded snapshots, none of them within tolerance, and has
\* classified every rank "same"
C24_Witness ==
    /\ Rolling(variant)
    /\ pc[1] = "rendering"
    /\ Len(history[1]) >= 1
    /\ \A k \in 1..Len(history[1]) :
          Abs(history[1][k].timestamp - (now[1] - 24 * 3600)) > 3600
    /\ moves[1] = [r \in 1..Target |-> "same"]

C25_PairedFiles ==
    HasColors(variant) =>
        /\ rankingsFile.present <=> colorsFile.present
        /\ DOMAIN rankingsFile.map = DOMAIN colorsFile.map

C25_PairedWrite ==
    (HasColors(variant) /\ (rankingsFile' # rankingsFile \/ colorsFile' # colorsFile)) =>
        \E c \in Slots :
            /\ pc[c] = "rendering"
            /\ pc'[c] = "done"
            /\ rankingsBy' = c
            /\ rankingsFile'.present /\ colorsFile'.present
            /\ DOMAIN rankingsFile'.map = DOMAIN newPreviousRankings[c] \cup {KeyOf(collections[c][idx[c] + 1])}
            /\ DOMAIN colorsFile'.map = DOMAIN rankingsFile'.map

\* C25: in the servers that keep colours, also when invocations overlap,
\* whenever an invocation is suspended or has ended the rankings file and
\* the colours file hold the same ids, and a step that changes either file
\* is the end of one invocation, which writes both from its own maps.
C25_FilesStayPaired == []C25_PairedFiles /\ [][C25_PairedWrite]_vars

\* two invocations overlap while both files, written by an earlier one, are
\* on disk
C25_Witness ==
    /\ HasColors(variant)
    /\ pc[1] = "rendering"
    /\ pc[2] = "rendering"
    /\ collections[1] # collections[2]
    /\ rankingsFile.present
    /\ colorsFile.present

\* C26: a step that writes the history file keeps every snapshot of the
\* file that is not older than 25 h at the now of the writing cycle.
C26_NoLostSnapshot ==
    [][(Rolling(variant) /\ historyFile' # historyFile) =>
          LET old == historyFile.snaps
              new == historyFile'.snaps
              t == new[Len(new)].timestamp
          IN \A k \in 1..Len(old) :
                old[k].timestamp >= t - 25 * 3600 =>
                    \E j \in 1..Len(new) : new[j] = old[k]]_vars

====
